---- MODULE Spec2Model ----
(***************************************************************************)
(* tiny-test: the collect_fails! macro (table-driven case runner) and      *)
(* report_fails (the aggregating reporter) of src/src/lib.rs.              *)
(*                                                                         *)
(* A text (String, panic message) is a sequence of tokens: the literal     *)
(* segments of a format string, split at every placeholder and at every    *)
(* line feed, and each "\n" a token of its own.                            *)
(***************************************************************************)
EXTENDS Naturals, Sequences, FiniteSets

VARIABLES
    debug,      \* cfg!(debug_assertions) of the build
    form,       \* the macro arm used: "six" (explicit assert) or "four" (shorthand)
    cases,      \* $cases: the sequence of (input, expected) pairs
    test,       \* $test: the function under test, Val -> Val or a fault
    assert,     \* $assert of the six-argument arm (an identifier of AssertIds)
    partialEq,  \* PartialEq::eq of the value type (an identifier of EqImpls)
    debugErr,   \* the values whose Debug implementation returns Err
    pc,         \* position of the single thread of control
    pos,        \* number of items the case iterator has yielded
    exhausted,  \* the case iterator returned None and collect() returned the Vec
    case_id,    \* the macro's local counter
    fails,      \* the Vec under construction, then the argument of report_fails
    calls,      \* log of the calls made: next / test / assert / end
    report,     \* the String built by report_fails
    ridx,       \* index of the next record of the for loop of report_fails
    panicMsg    \* the message of the panic that ended the run

vars == <<debug, form, cases, test, assert, partialEq, debugErr, pc, pos,
          exhausted, case_id, fails, calls, report, ridx, panicMsg>>

inputs == <<debug, form, cases, test, assert, partialEq, debugErr>>

\* ------------------------------------------------------------------ bounds

MaxCases == 4
MaxFails == 2
MaxCaseId == 2

\* ------------------------------------------------------------------ inputs

Val == {"a", "b"}
Panic == "panic!"

\* the functions under test tried: "a" is mapped to "a"; "b" to "a", "b" or a fault
TestFns == {f \in [Val -> Val \cup {Panic}] : f["a"] = "a"}
AssertIds == {"eq", "accept_a", "faulty"}
EqImpls == {"structural", "asymmetric"}
Case == [input : Val, expected : Val]
Record == [input : Val, expected : Val, result : Val, case_id : 1..MaxCaseId]

RECURSIVE SeqsUpTo(_, _)
SeqsUpTo(S, n) ==
    IF n = 0 THEN {<<>>}
    ELSE LET shorter == SeqsUpTo(S, n - 1)
         IN  shorter \cup {Append(s, x) : s \in {t \in shorter : Len(t) = n - 1}, x \in S}

\* ------------------------------------------------------------------ calls into user code

Ret(v) == [fault |-> FALSE, val |-> v]
Fault == [fault |-> TRUE, val |-> FALSE]

\* <T as PartialEq>::eq(l, r), i.e. l == r
PartialEqCall(l, r) ==
    IF partialEq = "structural" THEN l = r
    ELSE l = r \/ (l = "a" /\ r = "b")

\* $test(&input)
TestCall(input) ==
    IF test[input] = Panic THEN Fault ELSE Ret(test[input])

\* the closure passed as $assert in the six-argument arm, applied to (r, e)
CustomAssert(r, e) ==
    CASE assert = "eq" -> Ret(PartialEqCall(r, e))
      [] assert = "accept_a" -> Ret(r = "a")
      [] OTHER -> IF e = "b" THEN Fault ELSE Ret(PartialEqCall(r, e))

\* mutant of ShorthandClosure: the operands of == swapped
ShorthandClosure_Swapped(e, r) == Ret(PartialEqCall(r, e))

\* the closure |e, r| e == r the four-argument arm passes as $assert
ShorthandClosure(e, r) == Ret(PartialEqCall(e, r))

\* $assert(&result, &expected)
AssertCall(result, expected) ==
    IF form = "four" THEN ShorthandClosure(result, expected)
    ELSE CustomAssert(result, expected)

\* ------------------------------------------------------------------ formatting

Lit(toks) == [ok |-> TRUE, out |-> toks]

Digit == <<"0", "1", "2", "3", "4", "5", "6", "7", "8", "9">>

\* "{}" of a usize: its decimal digits
RECURSIVE UsizeDigits(_)
UsizeDigits(n) ==
    IF n < 10 THEN <<Digit[n + 1]>>
    ELSE UsizeDigits(n \div 10) \o <<Digit[(n % 10) + 1]>>

UsizeDisplay(n) == Lit(UsizeDigits(n))

\* the text the Debug implementation of the value type writes for each value
DebugName == [v \in Val |-> IF v = "a" THEN "A" ELSE "B"]

\* "{:#?}" of a value: the user's Debug implementation, which writes the value's
\* name, or writes nothing and returns Err
DebugFmt(v) ==
    IF v \in debugErr THEN [ok |-> FALSE, out |-> <<>>]
    ELSE Lit(<<DebugName[v]>>)

\* core::fmt::write: the pieces are written in order into the sink; the first
\* piece that returns Err stops the write, what was written before it stays
RECURSIVE WriteFrom(_, _, _)
WriteFrom(args, k, out) ==
    IF k > Len(args) THEN [ok |-> TRUE, out |-> out]
    ELSE IF ~args[k].ok THEN [ok |-> FALSE, out |-> out \o args[k].out]
    ELSE WriteFrom(args, k + 1, out \o args[k].out)

WriteFmt(args) == WriteFrom(args, 1, <<>>)

\* the grave accent U+0060 of the format strings (a TLA+ string cannot hold it)
BT == "[grave]"

\* the format string shared by debug_assert! and writeln!, with its arguments
CaseFormat(id, input, expected, result) ==
    << Lit(<<"test case ">>), UsizeDisplay(id),
       Lit(<<": assertion failed for input ", BT>>), DebugFmt(input),
       Lit(<<BT, "\n", "\texpected ", BT>>), DebugFmt(expected),
       Lit(<<BT, "\n", "\tresult ", BT>>), DebugFmt(result),
       Lit(<<BT, "\n">>) >>

\* mutant of Writeln: write! in place of writeln!, no line feed appended
Writeln_NoLineFeed(args) == WriteFmt(args)

\* writeln!(sink, fmt, args): the formatted text and then a line feed
Writeln(args) == WriteFmt(args \o <<Lit(<<"\n">>)>>)

\* format!("test case {}: assertion failed, unable to print message\n\n", case_id)
Fallback(id) ==
    <<"test case ">> \o UsizeDigits(id)
        \o <<": assertion failed, unable to print message", "\n", "\n">>

\* one iteration of the for loop of report_fails: writeln! into report, and on
\* Err the fallback line appended to report
RenderRecord(rep, rec) ==
    LET w == Writeln(CaseFormat(rec.case_id, rec.input, rec.expected, rec.result))
    IN  IF w.ok THEN rep \o w.out
        ELSE rep \o w.out \o Fallback(rec.case_id)

\* panic!("One or more assertions failed:\n{}", report)
ReportPanicMsg(rep) == <<"One or more assertions failed:", "\n">> \o rep

\* the message of the panic of debug_assert!: the payload is formatted with the
\* formatting error discarded, so it is what was written before the error
DebugAssertMsg(id, input, expected, result) ==
    WriteFmt(CaseFormat(id, input, expected, result)).out

\* ------------------------------------------------------------------ collect_fails!

\* case_id += 1
NextCaseId(id) == id + 1

\* mutant of DebugAssertions: assert! in place of debug_assert!, never compiled out
DebugAssertions_Always == TRUE

\* mutant of DebugAssertions: the check compiled out of every build
DebugAssertions_Never == FALSE

\* debug_assert! is compiled in
DebugAssertions == debug

\* mutant of FilterMapResult: the branches exchanged
FilterMapResult_Inverted(ok, acc, rec) == IF ok THEN Append(acc, rec) ELSE acc

\* if assert { None } else { Some((input, expected, result, case_id)) }
FilterMapResult(ok, acc, rec) == IF ok THEN acc ELSE Append(acc, rec)

\* mutant of IsEmpty: off by one, a single record counts as empty
IsEmpty_AtMostOne(f) == Len(f) <= 1

\* fails.is_empty()
IsEmpty(f) == Len(f) = 0

InitRun ==
    /\ pc = "collect"
    /\ pos = 0
    /\ exhausted = FALSE
    /\ case_id = 0
    /\ fails = <<>>
    /\ calls = <<>>
    /\ report = <<>>
    /\ ridx = 0
    /\ panicMsg = <<>>

Init ==
    /\ debug \in BOOLEAN
    /\ form \in {"six", "four"}
    /\ cases \in SeqsUpTo(Case, MaxCases)
    /\ test \in TestFns
    /\ partialEq \in EqImpls
    /\ assert \in (IF form = "six" THEN AssertIds ELSE {"eq"})
    /\ debugErr \in {{}, {"b"}}
    /\ InitRun

\* the iterator yields the next case and filter_map calls the closure on it
IterNext ==
    /\ pc = "collect"
    /\ pos < Len(cases)
    /\ pos' = pos + 1
    /\ calls' = Append(calls, <<"next", pos + 1>>)
    /\ pc' = "closure"
    /\ UNCHANGED <<inputs, exhausted, case_id, fails, report, ridx, panicMsg>>

\* the iterator returns None: collect() returns the Vec, which the caller hands
\* to report_fails
IterEnd ==
    /\ pc = "collect"
    /\ pos = Len(cases)
    /\ exhausted' = TRUE
    /\ calls' = Append(calls, <<"end", pos>>)
    /\ pc' = "report"
    /\ UNCHANGED <<inputs, pos, case_id, fails, report, ridx, panicMsg>>

\* mutant of ClosureTestFault: the fault is caught and the case skipped
ClosureTestFault_Caught ==
    /\ pc = "closure"
    /\ TestCall(cases[pos].input).fault
    /\ case_id' = NextCaseId(case_id)
    /\ calls' = Append(calls, <<"test", pos>>)
    /\ pc' = "collect"
    /\ UNCHANGED <<inputs, pos, exhausted, fails, report, ridx, panicMsg>>

\* the closure body: $test panics
ClosureTestFault ==
    /\ pc = "closure"
    /\ TestCall(cases[pos].input).fault
    /\ case_id' = NextCaseId(case_id)
    /\ calls' = Append(calls, <<"test", pos>>)
    /\ pc' = "panic_fault"
    /\ panicMsg' = <<"fault in test">>
    /\ UNCHANGED <<inputs, pos, exhausted, fails, report, ridx>>

\* the closure body: $test returns, $assert panics
ClosureAssertFault ==
    /\ pc = "closure"
    /\ LET t == TestCall(cases[pos].input)
       IN  /\ ~t.fault
           /\ AssertCall(t.val, cases[pos].expected).fault
    /\ case_id' = NextCaseId(case_id)
    /\ calls' = calls \o << <<"test", pos>>, <<"assert", pos>> >>
    /\ pc' = "panic_fault"
    /\ panicMsg' = <<"fault in assert">>
    /\ UNCHANGED <<inputs, pos, exhausted, fails, report, ridx>>

\* the closure body: both return, the assertion is false and debug_assert! panics
ClosureDebugAssert ==
    /\ pc = "closure"
    /\ LET t == TestCall(cases[pos].input)
           a == AssertCall(t.val, cases[pos].expected)
       IN  /\ ~t.fault
           /\ ~a.fault
           /\ DebugAssertions
           /\ ~a.val
           /\ panicMsg' = DebugAssertMsg(NextCaseId(case_id), cases[pos].input,
                                         cases[pos].expected, t.val)
    /\ case_id' = NextCaseId(case_id)
    /\ calls' = calls \o << <<"test", pos>>, <<"assert", pos>> >>
    /\ pc' = "panic_debug_assert"
    /\ UNCHANGED <<inputs, pos, exhausted, fails, report, ridx>>

\* mutant of ClosureReturn: case_id is incremented only when a record is made
ClosureReturn_CountFailures ==
    /\ pc = "closure"
    /\ LET t == TestCall(cases[pos].input)
           a == AssertCall(t.val, cases[pos].expected)
           id == IF a.val THEN case_id ELSE NextCaseId(case_id)
       IN  /\ ~t.fault
           /\ ~a.fault
           /\ ~(DebugAssertions /\ ~a.val)
           /\ fails' = FilterMapResult(a.val, fails,
                          [input |-> cases[pos].input, expected |-> cases[pos].expected,
                           result |-> t.val, case_id |-> id])
           /\ case_id' = id
    /\ calls' = calls \o << <<"test", pos>>, <<"assert", pos>> >>
    /\ pc' = "collect"
    /\ UNCHANGED <<inputs, pos, exhausted, report, ridx, panicMsg>>

\* mutant of ClosureReturn: $test is evaluated a second time for the record
ClosureReturn_TestTwice ==
    /\ pc = "closure"
    /\ LET t == TestCall(cases[pos].input)
           a == AssertCall(t.val, cases[pos].expected)
           id == NextCaseId(case_id)
       IN  /\ ~t.fault
           /\ ~a.fault
           /\ ~(DebugAssertions /\ ~a.val)
           /\ fails' = FilterMapResult(a.val, fails,
                          [input |-> cases[pos].input, expected |-> cases[pos].expected,
                           result |-> t.val, case_id |-> id])
           /\ case_id' = id
    /\ calls' = calls \o << <<"test", pos>>, <<"assert", pos>>, <<"test", pos>> >>
    /\ pc' = "collect"
    /\ UNCHANGED <<inputs, pos, exhausted, report, ridx, panicMsg>>

\* the closure body: both return, debug_assert! passes or is compiled out, and
\* the closure returns None or Some(record)
ClosureReturn ==
    /\ pc = "closure"
    /\ LET t == TestCall(cases[pos].input)
           a == AssertCall(t.val, cases[pos].expected)
           id == NextCaseId(case_id)
       IN  /\ ~t.fault
           /\ ~a.fault
           /\ ~(DebugAssertions /\ ~a.val)
           /\ fails' = FilterMapResult(a.val, fails,
                          [input |-> cases[pos].input, expected |-> cases[pos].expected,
                           result |-> t.val, case_id |-> id])
           /\ case_id' = id
    /\ calls' = calls \o << <<"test", pos>>, <<"assert", pos>> >>
    /\ pc' = "collect"
    /\ UNCHANGED <<inputs, pos, exhausted, report, ridx, panicMsg>>

\* ------------------------------------------------------------------ report_fails

\* if fails.is_empty() { return; }
ReportEmpty ==
    /\ pc = "report"
    /\ IsEmpty(fails)
    /\ pc' = "returned"
    /\ UNCHANGED <<inputs, pos, exhausted, case_id, fails, calls, report, ridx, panicMsg>>

\* let mut report = String::with_capacity(1024); and the for loop is entered
ReportStart ==
    /\ pc = "report"
    /\ ~IsEmpty(fails)
    /\ report' = <<>>
    /\ ridx' = 1
    /\ pc' = "report_loop"
    /\ UNCHANGED <<inputs, pos, exhausted, case_id, fails, calls, panicMsg>>

\* one iteration of for (input, expected, result, case_id) in fails
ReportRecord ==
    /\ pc = "report_loop"
    /\ ridx <= Len(fails)
    /\ report' = RenderRecord(report, fails[ridx])
    /\ ridx' = ridx + 1
    /\ UNCHANGED <<inputs, pc, pos, exhausted, case_id, fails, calls, panicMsg>>

\* panic!("One or more assertions failed:\n{}", report)
ReportPanic ==
    /\ pc = "report_loop"
    /\ ridx > Len(fails)
    /\ panicMsg' = ReportPanicMsg(report)
    /\ pc' = "panic_report"
    /\ UNCHANGED <<inputs, pos, exhausted, case_id, fails, calls, report, ridx>>

ReportNext == ReportEmpty \/ ReportStart \/ ReportRecord \/ ReportPanic

Next ==
    \/ IterNext
    \/ IterEnd
    \/ ClosureTestFault
    \/ ClosureAssertFault
    \/ ClosureDebugAssert
    \/ ClosureReturn
    \/ ReportEmpty
    \/ ReportStart
    \/ ReportRecord
    \/ ReportPanic

\* report_fails(collect_fails!(...))
Spec == Init /\ [][Next]_vars

\* report_fails called on its own, with any Vec of records
InitReport ==
    /\ debug \in BOOLEAN
    /\ form = "six"
    /\ cases = <<>>
    /\ test = [v \in Val |-> v]
    /\ partialEq = "structural"
    /\ assert = "eq"
    /\ debugErr \in {{}, {"b"}}
    /\ pc = "report"
    /\ pos = 0
    /\ exhausted = FALSE
    /\ case_id = 0
    /\ fails \in SeqsUpTo(Record, MaxFails)
    /\ calls = <<>>
    /\ report = <<>>
    /\ ridx = 0
    /\ panicMsg = <<>>

SpecReport == InitReport /\ [][ReportNext]_vars

\* ------------------------------------------------------------------ vocabulary of the properties

TerminalPcs == {"returned", "panic_report", "panic_debug_assert", "panic_fault"}

\* the first line of the aggregated report
ReportPrefix == <<"One or more assertions failed:", "\n">>

StartsWith(msg, pre) ==
    Len(msg) >= Len(pre) /\ SubSeq(msg, 1, Len(pre)) = pre

\* every value of the record has a Debug implementation that succeeds
RecFormats(rec) ==
    rec.input \notin debugErr /\ rec.expected \notin debugErr /\ rec.result \notin debugErr

AllFormat(f) == \A k \in 1..Len(f) : RecFormats(f[k])

\* the per-record template as section 4.2 of the specification writes it
TemplateBlock(rec) ==
    <<"test case ">> \o UsizeDigits(rec.case_id)
        \o <<": assertion failed for input ", BT, DebugName[rec.input], BT, "\n",
             "\texpected ", BT, DebugName[rec.expected], BT, "\n",
             "\tresult ", BT, DebugName[rec.result], BT, "\n">>

\* the fallback line as section 4.2 of the specification writes it
FallbackLine(rec) ==
    <<"test case ">> \o UsizeDigits(rec.case_id)
        \o <<": assertion failed, unable to print message", "\n", "\n">>

\* the blocks of the records of f in order, each followed by sep
RECURSIVE Blocks(_, _)
Blocks(f, sep) ==
    IF f = <<>> THEN <<>>
    ELSE TemplateBlock(Head(f)) \o sep \o Blocks(Tail(f), sep)

\* C1: report_fails returns normally, with no message and nothing written, iff
\* the collection is empty; on a non-empty collection it never returns and ends
\* in a panic whose message begins with the prefix line; it has no other outcome
C1_ReportOutcome ==
    /\ pc \in {"report", "report_loop", "returned", "panic_report"}
    /\ (pc = "returned" => fails = <<>> /\ panicMsg = <<>> /\ report = <<>> /\ ridx = 0)
    /\ (pc = "panic_report" => fails # <<>> /\ StartsWith(panicMsg, ReportPrefix))
    /\ (fails = <<>> => pc \in {"report", "returned"})
    /\ (pc \in {"report", "report_loop"} => ENABLED ReportNext)
    /\ (pc \in {"returned", "panic_report"} => ~ENABLED ReportNext)

C1_Witness ==
    pc = "panic_report" /\ Len(fails) = 2

\* C7 as stated: when every record formats, the message is the prefix and then
\* one template block per record, each ending in a single line feed
C7_SingleNewlineBlocks ==
    (pc = "panic_report" /\ AllFormat(fails))
        => panicMsg = ReportPrefix \o Blocks(fails, <<>>)

\* C7 amended: when every record formats, the message is the prefix and then,
\* per record in order, the template block followed by one more line feed
C7_BlankLineBlocks ==
    (pc = "panic_report" /\ AllFormat(fails))
        => panicMsg = ReportPrefix \o Blocks(fails, <<"\n">>)

C7_Witness ==
    /\ pc = "panic_report"
    /\ AllFormat(fails)
    /\ Len(fails) = 2
    /\ fails[1].case_id = 1
    /\ fails[2].case_id = 2

\* the report C6 describes: per record, its block if it formats and the fallback
\* line alone if it does not
RECURSIVE SubstitutedReport(_)
SubstitutedReport(f) ==
    IF f = <<>> THEN <<>>
    ELSE (IF RecFormats(Head(f)) THEN TemplateBlock(Head(f)) \o <<"\n">>
          ELSE FallbackLine(Head(f)))
         \o SubstitutedReport(Tail(f))

\* C6: a record whose formatting fails is replaced by the fallback line, with no
\* partial text of its block left; the other records are rendered in place, all
\* records are processed and the panic carries the whole report
C6_FallbackSubstituted ==
    pc = "panic_report"
        => /\ ridx = Len(fails) + 1
           /\ panicMsg = ReportPrefix \o SubstitutedReport(fails)

\* ------------------------------------------------------------------ the runner's cases

\* what the calls into user code do on case i
TestOf(i) == TestCall(cases[i].input)
AssertOf(i) == AssertCall(TestOf(i).val, cases[i].expected)
CaseFaults(i) == TestOf(i).fault \/ AssertOf(i).fault
CaseFails(i) == ~CaseFaults(i) /\ ~AssertOf(i).val

\* the cases the closure has been called on and has ended on, one way or another
Evaluated == IF pc = "closure" THEN pos - 1 ELSE pos

\* the cases the closure has returned from
Completed ==
    IF pc \in {"closure", "panic_fault", "panic_debug_assert"} THEN pos - 1 ELSE pos

NoFault == \A i \in 1..Len(cases) : ~CaseFaults(i)
FailingCases == {i \in 1..Len(cases) : CaseFails(i)}

Min(S) == CHOOSE x \in S : \A y \in S : x <= y

\* the record of case i
RecordOf(i) ==
    [input |-> cases[i].input, expected |-> cases[i].expected,
     result |-> test[cases[i].input], case_id |-> i]

\* the records of the failing cases among the first n, in case order
RECURSIVE FailuresUpTo(_)
FailuresUpTo(n) ==
    IF n = 0 THEN <<>>
    ELSE IF CaseFails(n) THEN Append(FailuresUpTo(n - 1), RecordOf(n))
         ELSE FailuresUpTo(n - 1)

\* C2 as stated: in either build configuration a fault-free run with no failing
\* case returns normally, and one with a failing case records every failing case
\* and ends in the aggregated report's panic, whose message has the prefix
C2_AggregatesInEveryBuild ==
    (pc \in TerminalPcs /\ NoFault)
        => /\ (FailingCases = {} => pc = "returned")
           /\ (FailingCases # {} =>
                  /\ pc = "panic_report"
                  /\ \A i \in FailingCases : \E k \in 1..Len(fails) : fails[k] = RecordOf(i)
                  /\ StartsWith(panicMsg, ReportPrefix))

\* C2 amended: a fault-free run with no failing case returns normally in either
\* build; with a failing case, a release build records every failing case and
\* ends in the aggregated report's panic with the prefix, and a debug build ends
\* at the first failing case in the panic of debug_assert!, with no record made
\* and a message without the prefix; every run ends
C2_AggregatesInRelease ==
    /\ (pc \notin TerminalPcs => ENABLED Next)
    /\ (pc \in TerminalPcs /\ NoFault)
        => /\ (FailingCases = {} => pc = "returned")
           /\ (FailingCases # {} /\ ~debug =>
                  /\ pc = "panic_report"
                  /\ \A i \in FailingCases : \E k \in 1..Len(fails) : fails[k] = RecordOf(i)
                  /\ StartsWith(panicMsg, ReportPrefix))
           /\ (FailingCases # {} /\ debug =>
                  /\ pc = "panic_debug_assert"
                  /\ pos = Min(FailingCases)
                  /\ fails = <<>>
                  /\ ~StartsWith(panicMsg, ReportPrefix))

C2_Witness ==
    /\ pc = "panic_report"
    /\ ~debug
    /\ NoFault
    /\ Cardinality(FailingCases) = 2
    /\ Len(cases) = 3

\* C3: the case_ids of the collection are exactly the 1-based positions of the
\* failing cases in the case sequence, each record holds the data of the case at
\* that position, and the case_ids increase strictly along the collection
C3_CaseIdIsPosition ==
    /\ {fails[k].case_id : k \in 1..Len(fails)} = {i \in 1..Completed : CaseFails(i)}
    /\ \A k \in 1..Len(fails) :
          /\ fails[k].case_id \in 1..Len(cases)
          /\ fails[k] = RecordOf(fails[k].case_id)
          /\ (k > 1 => fails[k - 1].case_id < fails[k].case_id)
    /\ case_id = Evaluated

\* cases ok, fail, ok, fail give the case_ids 2, 4
C3_Witness ==
    /\ exhausted
    /\ Len(cases) = 4
    /\ Len(fails) = 2
    /\ fails[1].case_id = 2
    /\ fails[2].case_id = 4

\* C4: with debug_assert! compiled out, the collection holds exactly one record
\* (input, expected, test(input), case_id) per failing case and none for a
\* passing case, in evaluation order; it is never longer than the case sequence
\* and is empty for the empty case sequence
C4_ExactlyTheFailures ==
    ~debug
        => /\ fails = FailuresUpTo(Completed)
           /\ Len(fails) <= Len(cases)
           /\ (cases = <<>> => fails = <<>>)

C4_Witness ==
    /\ ~debug
    /\ exhausted
    /\ Len(cases) = 3
    /\ Len(fails) = 2
    /\ ~CaseFails(2)

\* the message of debug_assert! for case i, every value rendered
SingleCaseMsg(i) == TemplateBlock(RecordOf(i))

\* the same message cut off right before the first value whose Debug
\* implementation returns an error
CutSingleCaseMsg(i) ==
    LET r == RecordOf(i)
        head == <<"test case ">> \o UsizeDigits(i) \o <<": assertion failed for input ", BT>>
        mid1 == <<DebugName[r.input], BT, "\n", "\texpected ", BT>>
        mid2 == <<DebugName[r.expected], BT, "\n", "\tresult ", BT>>
        last == <<DebugName[r.result], BT, "\n">>
    IN  IF r.input \in debugErr THEN head
        ELSE IF r.expected \in debugErr THEN head \o mid1
        ELSE IF r.result \in debugErr THEN head \o mid1 \o mid2
        ELSE head \o mid1 \o mid2 \o last

\* what C5 says besides the text of the message: in a debug build the first
\* failing case ends the run at once, no later case is evaluated, no collection
\* is returned and report_fails is never entered; a release build never ends so
AbortsAtFirstFailure ==
    /\ (pc = "panic_debug_assert" =>
          /\ debug
          /\ CaseFails(pos)
          /\ \A i \in 1..(pos - 1) : ~CaseFails(i)
          /\ calls[Len(calls)] = <<"assert", pos>>
          /\ \A k \in 1..Len(calls) : calls[k][2] <= pos
          /\ fails = <<>>
          /\ ~exhausted
          /\ report = <<>> /\ ridx = 0
          /\ ~ENABLED Next)
    /\ (debug => \A i \in 1..Evaluated : CaseFails(i) => (pc = "panic_debug_assert" /\ pos = i))
    /\ (~debug => pc # "panic_debug_assert")

\* C5 as stated: the fail-fast abort, with a message naming the case_id, the
\* input, the expected value and the result of the failing case
C5_FailFastNamesAll ==
    /\ AbortsAtFirstFailure
    /\ (pc = "panic_debug_assert" => panicMsg = SingleCaseMsg(pos))

\* C5 amended: the fail-fast abort, with a message naming the case_id and then
\* the input, the expected value and the result, cut off right before the first
\* of them whose Debug implementation returns an error
C5_FailFastNamesRendered ==
    /\ AbortsAtFirstFailure
    /\ (pc = "panic_debug_assert" => panicMsg = CutSingleCaseMsg(pos))

C5_Witness ==
    /\ pc = "panic_debug_assert"
    /\ pos = 2
    /\ Len(cases) = 3
    /\ RecFormats(RecordOf(2))
    /\ panicMsg = SingleCaseMsg(2)

\* C8: a fault of test or assert on case k ends the run at once: no later case is
\* evaluated, assert is not called after a fault of test, no collection is
\* returned, report_fails is never entered and no aggregated report is made
C8_FaultPropagates ==
    /\ (pc = "panic_fault" =>
          /\ CaseFaults(pos)
          /\ \A k \in 1..Len(calls) : calls[k][2] <= pos
          /\ calls[Len(calls)] = (IF TestOf(pos).fault THEN <<"test", pos>> ELSE <<"assert", pos>>)
          /\ ~exhausted
          /\ report = <<>> /\ ridx = 0
          /\ ~StartsWith(panicMsg, ReportPrefix)
          /\ ~ENABLED Next)
    /\ \A i \in 1..Evaluated : CaseFaults(i) => (pc = "panic_fault" /\ pos = i)

C8_Witness ==
    /\ pc = "panic_fault"
    /\ pos = 2
    /\ Len(cases) = 3
    /\ Len(fails) = 1

\* the calls of a run over the first n cases: per case, the iterator's next and
\* then test and then assert
RECURSIVE CallsUpTo(_)
CallsUpTo(n) ==
    IF n = 0 THEN <<>>
    ELSE CallsUpTo(n - 1) \o << <<"next", n>>, <<"test", n>>, <<"assert", n>> >>

\* C9: when collect_fails returns, every case was taken from the source once, in
\* order, test and assert were each called once per case, test before assert and
\* both before the next case is taken, and the source is exhausted
C9_OncePerCaseInOrder ==
    exhausted
        => /\ pos = Len(cases)
           /\ calls = CallsUpTo(Len(cases)) \o << <<"end", Len(cases)>> >>

C9_Witness ==
    exhausted /\ Len(cases) = 3 /\ pc = "returned"

\* the records of the cases among the first n whose result is not equal to the
\* expected value, the result being the left operand of ==
RECURSIVE UnequalUpTo(_)
UnequalUpTo(n) ==
    IF n = 0 THEN <<>>
    ELSE IF ~PartialEqCall(test[cases[n].input], cases[n].expected)
         THEN Append(UnequalUpTo(n - 1), RecordOf(n))
         ELSE UnequalUpTo(n - 1)

\* C10: the four-argument arm and the six-argument arm with |r, e| r == e as
\* assert both collect the records of the cases with result == expected false
C10_ShorthandIsEquality ==
    (form = "four" \/ (form = "six" /\ assert = "eq"))
        => fails = UnequalUpTo(IF debug THEN 0 ELSE Completed)

C10_Witness ==
    /\ form = "four"
    /\ partialEq = "asymmetric"
    /\ exhausted
    /\ Len(cases) = 2
    /\ Len(fails) = 1
    /\ \E i \in 1..2 : test[cases[i].input] = "a" /\ cases[i].expected = "b"
    /\ \E i \in 1..2 : test[cases[i].input] = "b" /\ cases[i].expected = "a"

====
